---------------------------- MODULE Spec2Model ----------------------------
(***************************************************************************)
(* State-machine model of the regex-driven data connector of the           *)
(* experimental datasources: RegExParser, FilePathDataConnector and        *)
(* FilesystemDataConnector.                                                *)
(*                                                                         *)
(* Representation.                                                         *)
(*  - A Python string that the code builds by concatenation (a group name) *)
(*    is a sequence of chunks; two names are equal when their chunk        *)
(*    sequences are equal.  The prefix is one chunk and every decimal      *)
(*    digit is one chunk, so f"{prefix}{idx}" is the prefix followed by    *)
(*    the digits of idx.                                                   *)
(*  - A Python Optional is None or Some(v).                                *)
(*  - A Python dict whose order matters (the data references cache) is a   *)
(*    sequence of key/value entries in insertion order; a dict whose order *)
(*    does not matter (batch identifiers, options) is a function.          *)
(*  - A data reference is an index into PathTable, which lists the paths   *)
(*    of the modelled directory tree in ascending string order, so that    *)
(*    sorted() is ascending index order.                                   *)
(***************************************************************************)
EXTENDS Integers, Sequences, FiniteSets, TLC

\* ------------------------------------------------------------------------
\* Python values
\* ------------------------------------------------------------------------
None == [isNone |-> TRUE]

Some(v) == [isNone |-> FALSE, value |-> v]

RECURSIVE str_of_int(_)
\* str(idx) for idx >= 0: its decimal digits, most significant first.
str_of_int(n) ==
  LET digit == <<"0", "1", "2", "3", "4", "5", "6", "7", "8", "9">>
  IN  IF n < 10 THEN <<digit[n + 1]>>
      ELSE str_of_int(n \div 10) \o <<digit[(n % 10) + 1]>>

\* dict(zip(keys, values)) read as a function: zip stops at the shorter list
\* and a later pair replaces an earlier pair with the same key.
DictOfZip(keys, values) ==
  LET n == IF Len(keys) < Len(values) THEN Len(keys) ELSE Len(values)
      lastPos(k) == CHOOSE i \in 1..n :
                       /\ keys[i] = k
                       /\ \A j \in (i + 1)..n : keys[j] # k
  IN  [k \in {keys[i] : i \in 1..n} |-> values[lastPos(k)]]

\* list(dict(zip(keys, values)).keys()): the keys in first-insertion order.
DictOfZipKeys(keys, values) ==
  LET n == IF Len(keys) < Len(values) THEN Len(keys) ELSE Len(values)
      firstIdx == {i \in 1..n : \A j \in 1..(i - 1) : keys[j] # keys[i]}
      RECURSIVE build(_)
      build(i) == IF i > n THEN <<>>
                  ELSE IF i \in firstIdx THEN <<keys[i]>> \o build(i + 1)
                  ELSE build(i + 1)
  IN  build(1)

\* ------------------------------------------------------------------------
\* Bounds
\* ------------------------------------------------------------------------
\* Largest number of entries (files and directories) on disk at one time.
MaxFiles == 3

\* Largest number of rows of a dataframe handed to a sampler.
MaxRows == 2

\* ------------------------------------------------------------------------
\* Compiled patterns (re.Pattern) over the modelled directory tree
\* ------------------------------------------------------------------------
unnamed_regex_group_prefix == <<"batch_request_param_">>

\* The relative paths of the directory tree, in ascending string order.
\* dir is the parent directory ("" at the top level), file the entry name.
PathTable == <<
  [text |-> "A",            dir |-> "",  file |-> "A",          isDir |-> TRUE],
  [text |-> "A/file_1.csv", dir |-> "A", file |-> "file_1.csv", isDir |-> FALSE],
  [text |-> "A/file_2.csv", dir |-> "A", file |-> "file_2.csv", isDir |-> FALSE],
  [text |-> "B",            dir |-> "",  file |-> "B",          isDir |-> TRUE],
  [text |-> "B/file_1.csv", dir |-> "B", file |-> "file_1.csv", isDir |-> FALSE],
  [text |-> "B/notes.txt",  dir |-> "B", file |-> "notes.txt",  isDir |-> FALSE],
  [text |-> "B/raw",        dir |-> "B", file |-> "raw",        isDir |-> FALSE] >>

Paths == 1..Len(PathTable)

IsCsv(p) == PathTable[p].file \in {"file_1.csv", "file_2.csv"}

\* The entry's name contains a dot (what the glob pattern "*.*" asks for).
HasDot(p) == PathTable[p].file \in {"file_1.csv", "file_2.csv", "notes.txt"}

\* The compiled patterns a connector is given.  groups is Pattern.groups,
\* groupindex is Pattern.groupindex (name -> index of the named groups).
Patterns == {
  [isNone |-> FALSE, pattern |-> "(?P<name>.+)\\/.+\\.csv",
   groups |-> 1, groupindex |-> (<<"name">> :> 1)],
  [isNone |-> FALSE, pattern |-> "(?P<directory>.+)\\/(?P<filename>.+\\.csv)",
   groups |-> 2, groupindex |-> (<<"directory">> :> 1 @@ <<"filename">> :> 2)],
  [isNone |-> FALSE, pattern |-> "(.+)\\/(.+)\\.txt",
   groups |-> 2, groupindex |-> <<>>],
  [isNone |-> FALSE, pattern |-> "(.+)\\/(?P<batch_request_param_1>.+\\.csv)",
   groups |-> 2, groupindex |-> (<<"batch_request_param_", "1">> :> 2)] }

\* Two further patterns a data asset is given: one without groups, and one
\* that does not ask for a file extension.
PatternsWithoutExtension == {
  [isNone |-> FALSE, pattern |-> ".+\\.csv",
   groups |-> 0, groupindex |-> <<>>],
  [isNone |-> FALSE, pattern |-> "(?P<directory>.+)\\/(?P<filename>.+)",
   groups |-> 2, groupindex |-> (<<"directory">> :> 1 @@ <<"filename">> :> 2)] }

\* Pattern.match(target): None, or the tuple Match.groups() of the values
\* captured by groups 1..N.
re_match(regex, p) ==
  LET t == PathTable[p]
      stem == IF t.file = "notes.txt" THEN "notes" ELSE t.file
  IN  CASE regex.pattern = "(?P<name>.+)\\/.+\\.csv" ->
             IF t.dir # "" /\ IsCsv(p) THEN Some(<<t.dir>>) ELSE None
        [] regex.pattern = "(?P<directory>.+)\\/(?P<filename>.+\\.csv)" ->
             IF t.dir # "" /\ IsCsv(p) THEN Some(<<t.dir, t.file>>) ELSE None
        [] regex.pattern = "(.+)\\/(.+)\\.txt" ->
             IF t.dir # "" /\ t.file = "notes.txt" THEN Some(<<t.dir, stem>>) ELSE None
        [] regex.pattern = "(.+)\\/(?P<batch_request_param_1>.+\\.csv)" ->
             IF t.dir # "" /\ IsCsv(p) THEN Some(<<t.dir, t.file>>) ELSE None
        [] regex.pattern = ".+\\.csv" ->
             IF IsCsv(p) THEN Some(<<>>) ELSE None
        [] regex.pattern = "(?P<directory>.+)\\/(?P<filename>.+)" ->
             IF t.dir # "" THEN Some(<<t.dir, t.file>>) ELSE None


\* ------------------------------------------------------------------------
\* RegExParser
\* ------------------------------------------------------------------------
\* sorted(s) for a finite set of integers.
RECURSIVE SortedSeq(_)
SortedSeq(s) ==
  IF s = {} THEN <<>>
  ELSE LET m == CHOOSE x \in s : \A y \in s : x <= y
       IN  <<m>> \o SortedSeq(s \ {m})

\* RegExParser.__init__: reads regex_pattern.groups and
\* regex_pattern.groupindex; on None the attribute access raises.
RegExParser_init(regex_pattern, prefix) ==
  IF regex_pattern.isNone
  THEN [raised |-> "AttributeError"]
  ELSE [raised |-> "",
        _num_all_matched_group_values |-> regex_pattern.groups,
        _named_group_name_to_group_index_mapping |-> regex_pattern.groupindex,
        _regex_pattern |-> regex_pattern,
        _unnamed_regex_group_prefix |-> prefix]

get_num_all_matched_group_values(parser) == parser._num_all_matched_group_values

get_matches(parser, target) == re_match(parser._regex_pattern, target)

\* list(self.get_matches(target).groups()); only called on a match.
get_all_matched_group_values(parser, target) == get_matches(parser, target).value

\* The indexes of the unnamed groups: range(1, N + 1) filtered by
\* "idx not in named mapping values".
common_group_indexes(parser) ==
  LET named == parser._named_group_name_to_group_index_mapping
  IN  {idx \in 1..parser._num_all_matched_group_values :
         \A nm \in DOMAIN named : named[nm] # idx}

\* all_group_index_to_group_name_mapping: the named groups' index -> name
\* merged with idx -> f"{prefix}{idx}" for the unnamed groups (the second
\* operand of the merge wins on a shared key).
all_group_index_to_group_name_mapping(parser) ==
  LET named  == parser._named_group_name_to_group_index_mapping
      common == common_group_indexes(parser)
      dom    == {named[nm] : nm \in DOMAIN named} \cup common
  IN  [idx \in dom |->
         IF idx \in common
         THEN parser._unnamed_regex_group_prefix \o str_of_int(idx)
         ELSE CHOOSE nm \in DOMAIN named : named[nm] = idx]

\* The keys of all_group_index_to_group_name_mapping after the sort by key.
get_all_group_indexes(parser) ==
  SortedSeq(DOMAIN all_group_index_to_group_name_mapping(parser))

\* get_all_group_names_to_group_indexes_bidirectional_mappings: the pair
\* (name -> index, index -> name); name -> index is
\* dict(zip(index_to_name.values(), index_to_name.keys())).
get_all_group_names_to_group_indexes_bidirectional_mappings(parser) ==
  LET i2n     == all_group_index_to_group_name_mapping(parser)
      indexes == get_all_group_indexes(parser)
      names   == [k \in 1..Len(indexes) |-> i2n[indexes[k]]]
  IN  <<DictOfZip(names, indexes), i2n>>

get_all_group_name_to_group_index_mapping(parser) ==
  get_all_group_names_to_group_indexes_bidirectional_mappings(parser)[1]

get_all_group_index_to_group_name_mapping(parser) ==
  get_all_group_names_to_group_indexes_bidirectional_mappings(parser)[2]

\* list(name_to_index.keys()): the names in the order the dict got them.
get_all_group_names(parser) ==
  LET i2n     == all_group_index_to_group_name_mapping(parser)
      indexes == get_all_group_indexes(parser)
      names   == [k \in 1..Len(indexes) |-> i2n[indexes[k]]]
  IN  DictOfZipKeys(names, indexes)

\* dict(zip(all_group_names, all_matched_group_values)).
get_group_name_to_group_value_mapping(parser, target) ==
  DictOfZip(get_all_group_names(parser),
            get_all_matched_group_values(parser, target))

\* dict(zip(all_group_indexes, all_matched_group_values)).
get_group_index_to_group_value_mapping(parser, target) ==
  DictOfZip(get_all_group_indexes(parser),
            get_all_matched_group_values(parser, target))

\* ------------------------------------------------------------------------
\* Inputs
\* ------------------------------------------------------------------------
DatasourceNames == {"my_dataframe_datasource", "BASE"}

DataAssetNames == {"my_filesystem_data_asset", "A"}

ConnectorNames == {"my_experimental_data_connector"}

GlobDirectives == {"**/*", "*/*.csv"}

\* The entries the connector's directory tree is filled with: directories
\* and files whose name has an extension.
PathsWithExtension == {p \in Paths : PathTable[p].isDir \/ HasDot(p)}

\* Directory paths: absolute or relative, with their components.
BaseDirectories == {
  [absolute |-> TRUE,  parts |-> <<"tmp", "test_dir">>],
  [absolute |-> FALSE, parts |-> <<"data">>] }

RootDirectories == {None, Some([absolute |-> TRUE, parts |-> <<"ctx">>])}

\* BatchRequest.options: None, the empty dict, or group name -> value.
OptionsUniverse == {
  None,
  Some(<<>>),
  Some(<<"name">> :> "A"),
  Some(<<"directory">> :> "B"),
  Some(<<"directory">> :> "A" @@ <<"filename">> :> "file_1.csv"),
  Some(<<"filename">> :> "file_1.csv"),
  Some(<<"batch_request_param_", "1">> :> "B" @@ <<"batch_request_param_", "2">> :> "notes") }

BatchRequests ==
  [datasource_name : DatasourceNames, data_asset_name : DataAssetNames,
   options : OptionsUniverse]

\* ------------------------------------------------------------------------
\* State
\* ------------------------------------------------------------------------
VARIABLES
  fs,                      \* the entries under base_directory (a set of Paths)
  status,                  \* "none", "constructed", or the error the constructor raised
  cls,                     \* the class whose __init__ was called ("" before)
  datasource_name,         \* DataConnector.datasource_name
  data_asset_name,         \* DataConnector.data_asset_name
  name,                    \* the name argument given to the constructor
  _regex,                  \* FilePathDataConnector._regex
  _regex_parser,           \* FilePathDataConnector._regex_parser
  _glob_directive,         \* FilesystemDataConnector._glob_directive
  _data_references_cache,  \* FilePathDataConnector._data_references_cache
  last_enumerated,         \* the list get_data_references() returned at the last refresh
  _base_directory,         \* FilesystemDataConnector._base_directory
  data_context_root_directory, \* DataConnector.data_context_root_directory
  the_asset,               \* the _FilesystemDataAsset (NoAsset before it is created)
  strategies_used,         \* the PolarsDataSampler methods that have returned a dataframe
  ret                      \* the last call and what it returned

vars == <<fs, status, cls, datasource_name, data_asset_name, name, _regex,
          _regex_parser, _glob_directive, _data_references_cache,
          last_enumerated, _base_directory, data_context_root_directory,
          the_asset, strategies_used, ret>>

self_vars == <<status, cls, datasource_name, data_asset_name, name, _regex,
               _regex_parser, _glob_directive>>

\* What the operations of the connector leave alone.
other_vars == <<_base_directory, data_context_root_directory, the_asset, strategies_used>>

NoCall == [op |-> "none"]

NoAsset == [created |-> FALSE]

\* ------------------------------------------------------------------------
\* The filesystem under base_directory
\* ------------------------------------------------------------------------
\* The directory entry a path lives in (0 for a top-level entry).
Parent(p) ==
  IF PathTable[p].dir = "" THEN 0
  ELSE CHOOSE d \in Paths : PathTable[d].isDir /\ PathTable[d].file = PathTable[p].dir

\* pathlib.Path(base_directory).glob(glob_directive), relative to
\* base_directory, as the set of entries it yields.
glob(files, glob_directive) ==
  CASE glob_directive = "**/*"    -> files
    [] glob_directive = "*/*.csv" -> {p \in files : Parent(p) # 0 /\ IsCsv(p)}
    [] glob_directive = "**/*.*"  -> {p \in files : HasDot(p)}

get_filesystem_one_level_directory_glob_path_list(files, glob_directive) ==
  glob(files, glob_directive)

\* _get_data_reference_list without its sort: the paths as the directory
\* scan happens to yield them (here in descending order).
_get_data_reference_list_unsorted(files, glob_directive) ==
  LET asc == SortedSeq(get_filesystem_one_level_directory_glob_path_list(files, glob_directive))
  IN  [i \in 1..Len(asc) |-> asc[Len(asc) + 1 - i]]

\* FilesystemDataConnector._get_data_reference_list: sorted(path_list).
_get_data_reference_list(files, glob_directive) ==
  SortedSeq(get_filesystem_one_level_directory_glob_path_list(files, glob_directive))

\* DataConnector.get_data_references: the subclass's list.
get_data_references(files, glob_directive) ==
  _get_data_reference_list(files, glob_directive)

\* ------------------------------------------------------------------------
\* Batch definitions and their matching
\* ------------------------------------------------------------------------
BatchDefinition(ds, connector, asset, identifiers) ==
  [datasource_name |-> ds, data_connector_name |-> connector,
   data_asset_name |-> asset, batch_identifiers |-> identifiers]

\* None when the pattern does not match the data reference, else a list of
\* one batch definition whose identifiers are the group name -> value mapping.
map_data_reference_string_to_batch_definition_list_using_regex(ds, connector, asset, data_reference, regex_pattern) ==
  IF re_match(regex_pattern, data_reference).isNone
  THEN None
  ELSE Some(<<BatchDefinition(ds, connector, asset,
                get_group_name_to_group_value_mapping(
                  RegExParser_init(regex_pattern, unnamed_regex_group_prefix),
                  data_reference))>>)

\* The batch definition is of the request's datasource and data asset (the
\* option values are compared afterwards, by the batch filter).
batch_definition_matches_batch_request(batch_definition, batch_request) ==
  /\ batch_request.datasource_name = batch_definition.datasource_name
  /\ batch_request.data_asset_name = batch_definition.data_asset_name

\* build_batch_filter({"batch_filter_parameters": options}) followed by
\* select_from_data_connector_query: keep, in order, the batch definitions
\* whose identifiers have every filter parameter with the same value.
select_from_data_connector_query(batch_filter_parameters, batch_definition_list) ==
  SelectSeq(batch_definition_list,
            LAMBDA bd : \A key \in DOMAIN batch_filter_parameters :
                           /\ key \in DOMAIN bd.batch_identifiers
                           /\ bd.batch_identifiers[key] = batch_filter_parameters[key])

\* ------------------------------------------------------------------------
\* FilePathDataConnector
\* ------------------------------------------------------------------------
\* cache[key] = value on an insertion-ordered dict.
DictPut(cache, key, value) ==
  IF \E i \in 1..Len(cache) : cache[i].key = key
  THEN [i \in 1..Len(cache) |->
          IF cache[i].key = key THEN [key |-> key, value |-> value] ELSE cache[i]]
  ELSE Append(cache, [key |-> key, value |-> value])

\* _refresh_data_references_cache: the cache built from an empty dict by one
\* assignment per data reference, in the order of the list.
RECURSIVE _refresh_loop(_, _, _, _, _)
_refresh_loop(cache, refs, ds, asset, regex) ==
  IF refs = <<>> THEN cache
  ELSE _refresh_loop(
         DictPut(cache, Head(refs),
                 map_data_reference_string_to_batch_definition_list_using_regex(
                   ds, "experimental", asset, Head(refs), regex)),
         Tail(refs), ds, asset, regex)

\* _refresh_data_references_cache without "self._data_references_cache = {}":
\* the loop assigns into the cache as it is.
_refresh_data_references_cache_without_reset(refs, ds, asset, regex) ==
  _refresh_loop(_data_references_cache, refs, ds, asset, regex)

_refresh_data_references_cache(refs, ds, asset, regex) ==
  _refresh_loop(<<>>, refs, ds, asset, regex)

\* _get_batch_definition_list_from_cache: batch_definitions[0] of every
\* cache value that is not None, in cache order.
_get_batch_definition_list_from_cache(cache) ==
  LET kept == SelectSeq(cache, LAMBDA e : ~e.value.isNone)
  IN  [i \in 1..Len(kept) |-> kept[i].value.value[1]]

\* The loop without its "not in batch_definition_set" test.
RECURSIVE _unique_matching_without_seen_test(_, _, _)
_unique_matching_without_seen_test(todo, batch_request, batch_definition_list) ==
  IF todo = <<>> THEN batch_definition_list
  ELSE _unique_matching_without_seen_test(
         Tail(todo), batch_request,
         IF batch_definition_matches_batch_request(Head(todo), batch_request)
         THEN Append(batch_definition_list, Head(todo))
         ELSE batch_definition_list)

\* The loop without its batch_definition_matches_batch_request test.
RECURSIVE _unique_matching_without_request_test(_, _, _)
_unique_matching_without_request_test(todo, batch_request, batch_definition_list) ==
  IF todo = <<>> THEN batch_definition_list
  ELSE _unique_matching_without_request_test(
         Tail(todo), batch_request,
         IF \A i \in 1..Len(batch_definition_list) : batch_definition_list[i] # Head(todo)
         THEN Append(batch_definition_list, Head(todo))
         ELSE batch_definition_list)

\* The loop of get_batch_definition_list_from_batch_request: append a batch
\* definition when it matches the request and was not appended before.
RECURSIVE _unique_matching(_, _, _)
_unique_matching(todo, batch_request, batch_definition_list) ==
  IF todo = <<>> THEN batch_definition_list
  ELSE _unique_matching(
         Tail(todo), batch_request,
         IF /\ batch_definition_matches_batch_request(Head(todo), batch_request)
            /\ \A i \in 1..Len(batch_definition_list) : batch_definition_list[i] # Head(todo)
         THEN Append(batch_definition_list, Head(todo))
         ELSE batch_definition_list)

\* get_batch_definition_list_from_batch_request that never applies the
\* batch filter built from the options.
get_batch_definition_list_from_batch_request_without_filter(cache, batch_request) ==
  _unique_matching(_get_batch_definition_list_from_cache(cache), batch_request, <<>>)

\* get_batch_definition_list_from_batch_request on a cache that is already
\* refreshed when it was empty.
get_batch_definition_list_from_batch_request(cache, batch_request) ==
  LET batch_definition_list ==
        _unique_matching(_get_batch_definition_list_from_cache(cache),
                         batch_request, <<>>)
  IN  IF ~batch_request.options.isNone
      THEN select_from_data_connector_query(batch_request.options.value,
                                            batch_definition_list)
      ELSE batch_definition_list

\* get_data_reference_count that counts only the matched data references.
get_data_reference_count_matched_only(cache) ==
  Len(SelectSeq(cache, LAMBDA e : ~e.value.isNone))

get_data_reference_count(cache) == Len(cache)

\* get_unmatched_data_references with the test "is None" inverted.
get_unmatched_data_references_inverted(cache) ==
  LET kept == SelectSeq(cache, LAMBDA e : ~e.value.isNone)
  IN  [i \in 1..Len(kept) |-> kept[i].key]

\* get_unmatched_data_references: the keys whose value is None, in cache order.
get_unmatched_data_references(cache) ==
  LET kept == SelectSeq(cache, LAMBDA e : e.value.isNone)
  IN  [i \in 1..Len(kept) |-> kept[i].key]

\* ------------------------------------------------------------------------
\* FilesystemDataConnector: full file paths and batch spec parameters
\* ------------------------------------------------------------------------
\* The components of a relative path.
PathParts(p) ==
  IF PathTable[p].dir = "" THEN <<PathTable[p].file>>
  ELSE <<PathTable[p].dir, PathTable[p].file>>

\* pathlib.Path(directory).joinpath(relative parts).
joinpath(directory, parts) ==
  [absolute |-> directory.absolute, parts |-> directory.parts \o parts]

\* An absolute dir_path, or any dir_path when there is no root directory,
\* stays as it is; a relative one is joined to the root directory.
normalize_directory_path(dir_path, root_directory_path) ==
  IF dir_path.absolute \/ root_directory_path.isNone
  THEN dir_path
  ELSE joinpath(root_directory_path.value, dir_path.parts)

\* The base_directory property.
base_directory(dir, root) == normalize_directory_path(dir, root)

\* _get_full_file_path that joins the path to _base_directory as given.
_get_full_file_path_not_normalized(dir, root, path) == joinpath(dir, PathParts(path))

\* _get_full_file_path: str(pathlib.Path(base_directory).joinpath(path)).
_get_full_file_path(dir, root, path) ==
  joinpath(base_directory(dir, root), PathParts(path))

\* The data reference whose group values, under the given group names, are
\* the batch identifiers; None stands for the empty path.
map_batch_definition_to_data_reference_string_using_regex(batch_definition, regex_pattern, group_names) ==
  LET fits == {p \in Paths :
                 /\ ~re_match(regex_pattern, p).isNone
                 /\ DictOfZip(group_names, re_match(regex_pattern, p).value)
                      = batch_definition.batch_identifiers}
  IN  IF fits = {} THEN None
      ELSE Some(CHOOSE p \in fits : \A q \in fits : p <= q)

\* _generate_batch_spec_parameters_from_batch_definition that returns the
\* mapped path without making it a full file path.
_generate_batch_spec_parameters_from_batch_definition_relative(parser, dir, root, batch_definition) ==
  LET path == map_batch_definition_to_data_reference_string_using_regex(
                batch_definition, parser._regex_pattern, get_all_group_names(parser))
  IN  IF path.isNone
      THEN [raised |-> "ValueError"]
      ELSE [raised |-> "",
            value |-> (<<"path">> :> [absolute |-> FALSE, parts |-> PathParts(path.value)])]

\* _generate_batch_spec_parameters_from_batch_definition: ValueError when
\* the mapped path is empty, else {"path": full file path}.
_generate_batch_spec_parameters_from_batch_definition(parser, dir, root, batch_definition) ==
  LET path == map_batch_definition_to_data_reference_string_using_regex(
                batch_definition, parser._regex_pattern, get_all_group_names(parser))
  IN  IF path.isNone
      THEN [raised |-> "ValueError"]
      ELSE [raised |-> "",
            value |-> (<<"path">> :> _get_full_file_path(dir, root, path.value))]

\* ------------------------------------------------------------------------
\* Initial state: an empty base_directory and no connector
\* ------------------------------------------------------------------------
InitRest ==
  /\ fs = {}
  /\ status = "none"
  /\ cls = ""
  /\ datasource_name = ""
  /\ data_asset_name = ""
  /\ name = ""
  /\ _regex = None
  /\ _regex_parser = [raised |-> "unset"]
  /\ _glob_directive = ""
  /\ _data_references_cache = <<>>
  /\ last_enumerated = <<>>
  /\ the_asset = NoAsset
  /\ strategies_used = {}
  /\ ret = NoCall

\* The directory the connector is pointed at: an absolute base_directory
\* and no data context root.
Init ==
  /\ InitRest
  /\ _base_directory = [absolute |-> TRUE, parts |-> <<"tmp", "test_dir">>]
  /\ data_context_root_directory = None

\* ------------------------------------------------------------------------
\* The environment: entries appear under and vanish from base_directory
\* ------------------------------------------------------------------------
\* A file is created together with its directory.
CreateFile(p) ==
  /\ p \notin fs
  /\ fs' = fs \cup {p} \cup (IF Parent(p) = 0 THEN {} ELSE {Parent(p)})
  /\ Cardinality(fs') <= MaxFiles
  /\ UNCHANGED <<self_vars, other_vars, _data_references_cache, last_enumerated, ret>>

\* A file, or a directory with nothing in it, is removed.
RemoveFile(p) ==
  /\ p \in fs
  /\ \A q \in fs : Parent(q) # p
  /\ fs' = fs \ {p}
  /\ UNCHANGED <<self_vars, other_vars, _data_references_cache, last_enumerated, ret>>

\* ------------------------------------------------------------------------
\* Constructors
\* ------------------------------------------------------------------------
\* FilesystemDataConnector.__init__: its first statement calls
\* FilePathDataConnector.__init__ with the keywords name and
\* execution_engine_name, which that signature does not have; the call raises
\* TypeError before any attribute is set.
FilesystemDataConnector_init(nm, ds, asset, engine, regex, glob_directive) ==
  /\ status = "none"
  /\ status' = "TypeError"
  /\ cls' = "FilesystemDataConnector"
  /\ name' = nm
  /\ ret' = [op |-> "FilesystemDataConnector", regex |-> regex,
             glob_directive |-> glob_directive, raised |-> "TypeError"]
  /\ UNCHANGED <<fs, other_vars, datasource_name, data_asset_name, _regex, _regex_parser,
                 _glob_directive, _data_references_cache, last_enumerated>>

\* FilePathDataConnector.__init__, run for a subclass whose directory
\* attributes are in place and whose data references are those of
\* FilesystemDataConnector._get_data_reference_list: store the names and the
\* regex, build the RegExParser, empty the cache and refresh it.
FilePathDataConnector_init(ds, asset, regex, glob_directive) ==
  LET parser == RegExParser_init(regex, unnamed_regex_group_prefix)
      refs   == get_data_references(fs, glob_directive)
  IN  /\ status = "none"
      /\ cls' = "FilePathDataConnector"
      /\ name' = ""
      /\ datasource_name' = ds
      /\ data_asset_name' = asset
      /\ _regex' = regex
      /\ _regex_parser' = parser
      /\ _glob_directive' = glob_directive
      /\ IF parser.raised # ""
         THEN /\ status' = parser.raised
              /\ UNCHANGED <<_data_references_cache, last_enumerated>>
         ELSE /\ status' = "constructed"
              /\ _data_references_cache' =
                   _refresh_data_references_cache(refs, ds, asset, regex)
              /\ last_enumerated' = refs
      /\ ret' = [op |-> "FilePathDataConnector", regex |-> regex,
                 glob_directive |-> glob_directive, raised |-> parser.raised]
      /\ UNCHANGED <<fs, other_vars>>

\* ------------------------------------------------------------------------
\* Methods of a constructed connector
\* ------------------------------------------------------------------------
Call_refresh_data_references_cache ==
  LET refs == get_data_references(fs, _glob_directive)
  IN  /\ status = "constructed"
      /\ _data_references_cache' =
           _refresh_data_references_cache(refs, datasource_name, data_asset_name, _regex)
      /\ last_enumerated' = refs
      /\ ret' = [op |-> "_refresh_data_references_cache",
                 keys_before |-> {_data_references_cache[i].key :
                                    i \in 1..Len(_data_references_cache)}]
      /\ UNCHANGED <<fs, self_vars, other_vars>>

\* The whole method: refresh an empty cache, then select from the cache.
Call_get_batch_definition_list_from_batch_request(batch_request) ==
  LET refs  == get_data_references(fs, _glob_directive)
      empty == Len(_data_references_cache) = 0
      cache == IF empty
               THEN _refresh_data_references_cache(refs, datasource_name,
                                                   data_asset_name, _regex)
               ELSE _data_references_cache
  IN  /\ status = "constructed"
      /\ _data_references_cache' = cache
      /\ last_enumerated' = IF empty THEN refs ELSE last_enumerated
      /\ ret' = [op |-> "get_batch_definition_list_from_batch_request",
                 batch_request |-> batch_request,
                 value |-> get_batch_definition_list_from_batch_request(cache, batch_request)]
      /\ UNCHANGED <<fs, self_vars, other_vars>>

Call_get_data_reference_count ==
  /\ status = "constructed"
  /\ ret' = [op |-> "get_data_reference_count",
             value |-> get_data_reference_count(_data_references_cache)]
  /\ UNCHANGED <<fs, self_vars, other_vars, _data_references_cache, last_enumerated>>

Call_get_unmatched_data_references ==
  /\ status = "constructed"
  /\ ret' = [op |-> "get_unmatched_data_references",
             value |-> get_unmatched_data_references(_data_references_cache)]
  /\ UNCHANGED <<fs, self_vars, other_vars, _data_references_cache, last_enumerated>>

Call_get_all_group_names_to_group_indexes_bidirectional_mappings ==
  /\ status = "constructed"
  /\ ret' = [op |-> "get_all_group_names_to_group_indexes_bidirectional_mappings",
             value |-> get_all_group_names_to_group_indexes_bidirectional_mappings(_regex_parser)]
  /\ UNCHANGED <<fs, self_vars, other_vars, _data_references_cache, last_enumerated>>

Next ==
  \/ \E p \in PathsWithExtension : CreateFile(p)
  \/ \E p \in PathsWithExtension : RemoveFile(p)
  \/ \E nm \in ConnectorNames, ds \in DatasourceNames, asset \in DataAssetNames,
        regex \in Patterns \cup {None}, g \in GlobDirectives :
       FilesystemDataConnector_init(nm, ds, asset, "PandasExecutionEngine", regex, g)
  \/ \E ds \in DatasourceNames, asset \in DataAssetNames,
        regex \in Patterns \cup {None}, g \in GlobDirectives :
       FilePathDataConnector_init(ds, asset, regex, g)
  \/ Call_refresh_data_references_cache
  \/ \E batch_request \in BatchRequests :
       Call_get_batch_definition_list_from_batch_request(batch_request)
  \/ Call_get_data_reference_count
  \/ Call_get_unmatched_data_references
  \/ Call_get_all_group_names_to_group_indexes_bidirectional_mappings

Spec == Init /\ [][Next]_vars

\* ------------------------------------------------------------------------
\* Vocabulary of the properties
\* ------------------------------------------------------------------------
Range(seq) == {seq[i] : i \in 1..Len(seq)}

NoTwoEqual(seq) == \A i, j \in 1..Len(seq) : i # j => seq[i] # seq[j]

StrictlyAscending(seq) == \A i, j \in 1..Len(seq) : i < j => seq[i] < seq[j]

CacheKeys == {_data_references_cache[i].key : i \in 1..Len(_data_references_cache)}

\* The cached data references the connector's regex matches.
MatchedKeys == {k \in CacheKeys : ~re_match(_regex, k).isNone}

\* The value the cache holds for a data reference.
CacheValue(k) ==
  LET i == CHOOSE j \in 1..Len(_data_references_cache) : _data_references_cache[j].key = k
  IN  _data_references_cache[i].value

\* The batch definition a matched data reference stands for.
CacheBatchDefinition(k) == CacheValue(k).value[1]

\* The first (smallest) data reference that stands for a batch definition.
FirstKeyOf(bd) ==
  CHOOSE k \in MatchedKeys :
    /\ CacheBatchDefinition(k) = bd
    /\ \A k2 \in MatchedKeys : CacheBatchDefinition(k2) = bd => k <= k2

Returned == ret.op = "get_batch_definition_list_from_batch_request"

RequestIsForConnector ==
  /\ ret.batch_request.datasource_name = datasource_name
  /\ ret.batch_request.data_asset_name = data_asset_name

\* ------------------------------------------------------------------------
\* Properties
\* ------------------------------------------------------------------------
\* C1: the list get_batch_definition_list_from_batch_request returns has no
\* two equal batch definitions, whatever the request and the cache.
C1_NoDuplicateBatchDefinitions == Returned => NoTwoEqual(ret.value)

\* A returned, non-empty list from a cache in which two data references stand
\* for the same batch definition.
C1_Witness ==
  /\ Returned
  /\ Len(ret.value) >= 1
  /\ \E k1, k2 \in MatchedKeys :
       k1 # k2 /\ CacheBatchDefinition(k1) = CacheBatchDefinition(k2)

SelectedByRequest ==
  {bd \in {CacheBatchDefinition(k) : k \in MatchedKeys} :
     /\ bd.datasource_name = ret.batch_request.datasource_name
     /\ bd.data_asset_name = ret.batch_request.data_asset_name
     /\ \A key \in DOMAIN ret.batch_request.options.value :
          /\ key \in DOMAIN bd.batch_identifiers
          /\ bd.batch_identifiers[key] = ret.batch_request.options.value[key]}

\* C3: when the request carries options, the list is exactly the cache's
\* batch definitions with the request's names whose identifiers equal the
\* option value under every option key; options that are all the identifiers
\* of one file give exactly that file's batch definition.
C3_OptionsSelectExactly ==
  (Returned /\ ~ret.batch_request.options.isNone)
  => /\ Range(ret.value) = SelectedByRequest
     /\ NoTwoEqual(ret.value)
     /\ \A k \in MatchedKeys :
          (/\ RequestIsForConnector
           /\ ret.batch_request.options.value = CacheBatchDefinition(k).batch_identifiers)
          => ret.value = <<CacheBatchDefinition(k)>>

\* Options naming all groups of one file pick that file out of a cache that
\* holds another batch definition as well.
C3_Witness ==
  /\ Returned
  /\ ~ret.batch_request.options.isNone
  /\ DOMAIN ret.batch_request.options.value # {}
  /\ Len(ret.value) = 1
  /\ ret.batch_request.options.value = ret.value[1].batch_identifiers
  /\ \E k \in MatchedKeys : CacheBatchDefinition(k) # ret.value[1]

\* C4: a request whose datasource name or data asset name is not the
\* connector's gets the empty list.
C4_ForeignRequestGetsNothing ==
  (Returned /\ ~RequestIsForConnector) => ret.value = <<>>

\* A foreign request answered from a cache that holds a batch definition.
C4_Witness ==
  /\ Returned
  /\ ~RequestIsForConnector
  /\ MatchedKeys # {}
  /\ ret.value = <<>>

\* C5: get_data_reference_count() is the number of data references
\* enumerated at the last cache refresh, those the regex matches and those it
\* does not match together.
C5_CountIsAllEnumerated ==
  ret.op = "get_data_reference_count"
  => /\ ret.value = Len(last_enumerated)
     /\ ret.value = Cardinality({k \in Range(last_enumerated) : ~re_match(_regex, k).isNone})
                    + Cardinality({k \in Range(last_enumerated) : re_match(_regex, k).isNone})

\* A count of several data references none of which the regex matches.
C5_Witness ==
  /\ ret.op = "get_data_reference_count"
  /\ ret.value >= 2
  /\ \A k \in Range(last_enumerated) : re_match(_regex, k).isNone

\* C6: get_unmatched_data_references() is exactly the cached data references
\* the regex did not map to a batch definition, each once, in ascending path
\* order; it is empty when every reference is matched or the cache is empty.
C6_UnmatchedAreTheNoneEntries ==
  ret.op = "get_unmatched_data_references"
  => /\ Range(ret.value) = {k \in CacheKeys : CacheValue(k).isNone}
     /\ Range(ret.value) = CacheKeys \ MatchedKeys
     /\ StrictlyAscending(ret.value)
     /\ (CacheKeys = MatchedKeys) => ret.value = <<>>

\* Unmatched references returned from a cache that also holds a matched one.
C6_Witness ==
  /\ ret.op = "get_unmatched_data_references"
  /\ Len(ret.value) >= 1
  /\ MatchedKeys # {}

\* C7: every returned batch definition carries the connector's
\* datasource_name and data_asset_name, and as data_connector_name the name
\* the connector was constructed with.
C7_BatchDefinitionNamesTheConnector ==
  Returned
  => \A i \in 1..Len(ret.value) :
       /\ ret.value[i].datasource_name = datasource_name
       /\ ret.value[i].data_asset_name = data_asset_name
       /\ ret.value[i].data_connector_name = name

\* C8: constructing a FilesystemDataConnector with a regex completes without error and
\* leaves in the cache exactly the paths under base_directory that
\* glob_directive selects.
C8_ConstructionFillsTheCache ==
  (ret.op = "FilesystemDataConnector" /\ ~ret.regex.isNone)
  => /\ ret.raised = ""
     /\ status = "constructed"
     /\ CacheKeys = glob(fs, ret.glob_directive)
     /\ get_data_reference_count(_data_references_cache)
          = Cardinality(glob(fs, ret.glob_directive))

\* C9: a connector constructed with regex omitted (None) is constructed
\* successfully.
C9_RegexIsOptional ==
  (ret.op \in {"FilesystemDataConnector", "FilePathDataConnector"} /\ ret.regex.isNone)
  => (ret.raised = "" /\ status = "constructed")

\* C10: for a pattern with N groups the two mappings are mutual inverses:
\* index -> name has exactly the keys 1..N, name -> index has exactly N keys,
\* and name_to_index[index_to_name[i]] = i for every i in 1..N.
C10_MappingsAreMutualInverses ==
  ret.op = "get_all_group_names_to_group_indexes_bidirectional_mappings"
  => LET name_to_index == ret.value[1]
         index_to_name == ret.value[2]
         N == _regex.groups
     IN  /\ DOMAIN index_to_name = 1..N
         /\ Cardinality(DOMAIN name_to_index) = N
         /\ \A i \in 1..N : /\ index_to_name[i] \in DOMAIN name_to_index
                            /\ name_to_index[index_to_name[i]] = i

\* ------------------------------------------------------------------------
\* Group values, full file paths and batch spec parameters of a connector
\* ------------------------------------------------------------------------
\* The connector may be pointed at an absolute or a relative base_directory,
\* with or without a data context root directory.
InitPaths ==
  /\ InitRest
  /\ _base_directory \in BaseDirectories
  /\ data_context_root_directory \in RootDirectories

\* The batch definitions handed to the connector: its own names with the
\* identifiers of some file, of no file, or of part of a file.
BatchDefinitionInputs ==
  {BatchDefinition(datasource_name, "experimental", data_asset_name, o.value) :
     o \in OptionsUniverse \ {None}}

\* get_matches returns None for a target the pattern does not match, and
\* .groups() of None raises.
Call_get_group_name_to_group_value_mapping(target) ==
  /\ status = "constructed"
  /\ ret' = IF get_matches(_regex_parser, target).isNone
            THEN [op |-> "get_group_name_to_group_value_mapping", target |-> target,
                  raised |-> "AttributeError"]
            ELSE [op |-> "get_group_name_to_group_value_mapping", target |-> target,
                  raised |-> "",
                  value |-> get_group_name_to_group_value_mapping(_regex_parser, target)]
  /\ UNCHANGED <<fs, self_vars, other_vars, _data_references_cache, last_enumerated>>

Call_get_group_index_to_group_value_mapping(target) ==
  /\ status = "constructed"
  /\ ret' = IF get_matches(_regex_parser, target).isNone
            THEN [op |-> "get_group_index_to_group_value_mapping", target |-> target,
                  raised |-> "AttributeError"]
            ELSE [op |-> "get_group_index_to_group_value_mapping", target |-> target,
                  raised |-> "",
                  value |-> get_group_index_to_group_value_mapping(_regex_parser, target)]
  /\ UNCHANGED <<fs, self_vars, other_vars, _data_references_cache, last_enumerated>>

Call_get_full_file_path(path) ==
  /\ status = "constructed"
  /\ ret' = [op |-> "_get_full_file_path", path |-> path,
             value |-> _get_full_file_path(_base_directory,
                                           data_context_root_directory, path)]
  /\ UNCHANGED <<fs, self_vars, other_vars, _data_references_cache, last_enumerated>>

Call_generate_batch_spec_parameters_from_batch_definition(batch_definition) ==
  /\ status = "constructed"
  /\ ret' = [op |-> "_generate_batch_spec_parameters_from_batch_definition",
             batch_definition |-> batch_definition,
             result |-> _generate_batch_spec_parameters_from_batch_definition(
                          _regex_parser, _base_directory,
                          data_context_root_directory, batch_definition)]
  /\ UNCHANGED <<fs, self_vars, other_vars, _data_references_cache, last_enumerated>>

NextPaths ==
  \/ \E p \in Paths : CreateFile(p)
  \/ \E regex \in Patterns \cup {None}, g \in GlobDirectives :
       FilePathDataConnector_init("my_dataframe_datasource", "my_filesystem_data_asset",
                                  regex, g)
  \/ \E target \in Paths : Call_get_group_name_to_group_value_mapping(target)
  \/ \E target \in Paths : Call_get_group_index_to_group_value_mapping(target)
  \/ \E path \in Paths : Call_get_full_file_path(path)
  \/ \E batch_definition \in BatchDefinitionInputs :
       Call_generate_batch_spec_parameters_from_batch_definition(batch_definition)

SpecPaths == InitPaths /\ [][NextPaths]_vars

\* C11: for a target the pattern matches, get_group_name_to_group_value_mapping
\* maps the name of every group i in 1..N to the value group i captured, and
\* get_group_index_to_group_value_mapping maps every i in 1..N to that value.
C11_GroupValuesByNameAndIndex ==
  LET captured == re_match(_regex, ret.target).value
      name_of  == get_all_group_index_to_group_name_mapping(_regex_parser)
  IN  /\ (ret.op = "get_group_name_to_group_value_mapping" /\ ret.raised = "")
         => \A i \in 1.._regex.groups :
              /\ name_of[i] \in DOMAIN ret.value
              /\ ret.value[name_of[i]] = captured[i]
      /\ (ret.op = "get_group_index_to_group_value_mapping" /\ ret.raised = "")
         => \A i \in 1.._regex.groups :
              /\ i \in DOMAIN ret.value
              /\ ret.value[i] = captured[i]

\* C12: _get_full_file_path(path) is the normalized base directory joined
\* with path, for every relative path, cached or not.
C12_FullPathIsUnderNormalizedBase ==
  ret.op = "_get_full_file_path"
  => LET normalized ==
           IF _base_directory.absolute \/ data_context_root_directory.isNone
           THEN _base_directory
           ELSE [absolute |-> data_context_root_directory.value.absolute,
                 parts |-> data_context_root_directory.value.parts
                           \o _base_directory.parts]
     IN  /\ ret.value.absolute = normalized.absolute
         /\ ret.value.parts = normalized.parts \o PathParts(ret.path)

\* The full path of a file that is on disk but not in the cache, under a
\* relative base directory that the root directory completes.
C12_Witness ==
  /\ ret.op = "_get_full_file_path"
  /\ ret.path \in fs
  /\ ret.path \notin CacheKeys
  /\ ~_base_directory.absolute
  /\ ~data_context_root_directory.isNone

\* C13: _generate_batch_spec_parameters_from_batch_definition raises
\* ValueError and returns nothing when the batch definition maps to no
\* (empty) path; otherwise it returns a dictionary with the single key
\* "path" whose value is _get_full_file_path of the mapped path.
C13_BatchSpecParametersOrValueError ==
  ret.op = "_generate_batch_spec_parameters_from_batch_definition"
  => LET mapped == map_batch_definition_to_data_reference_string_using_regex(
                     ret.batch_definition, _regex, get_all_group_names(_regex_parser))
     IN  IF mapped.isNone
         THEN ret.result.raised = "ValueError" /\ "value" \notin DOMAIN ret.result
         ELSE /\ ret.result.raised = ""
              /\ DOMAIN ret.result.value = {<<"path">>}
              /\ ret.result.value[<<"path">>]
                   = _get_full_file_path(_base_directory,
                                         data_context_root_directory, mapped.value)

\* Parameters returned for a batch definition of a cached file, the base
\* directory being completed by the root directory.
C13_Witness ==
  /\ ret.op = "_generate_batch_spec_parameters_from_batch_definition"
  /\ ret.result.raised = ""
  /\ ~_base_directory.absolute
  /\ ~data_context_root_directory.isNone
  /\ \E k \in MatchedKeys : CacheBatchDefinition(k) = ret.batch_definition


\* ------------------------------------------------------------------------
\* _FilesystemDataAsset
\* ------------------------------------------------------------------------
\* Python values held by batch request options and batch metadata: a str
\* (its text in chunks), an int, None, and a pathlib.Path.
StrValue(chunks) == [type |-> "str", v |-> chunks]

IntValue(chunks) == [type |-> "int", v |-> chunks]

NoneValue == [type |-> "NoneType", v |-> <<>>]

PathValue(path) ==
  [type |-> "Path", v |-> (IF path.absolute THEN <<"/">> ELSE <<>>) \o path.parts]

\* str(path) of a pathlib.Path.
str_of_Path(path) == StrValue(PathValue(path).v)

\* isinstance(value, str)
isinstance_str(value) == value.type = "str"

\* The datasource of the asset: its name and base_directory.
Datasource ==
  [name |-> "my_dataframe_datasource",
   base_directory |-> [absolute |-> TRUE, parts |-> <<"tmp", "test_dir">>]]

\* The reader method a _FilesystemDataAsset extension provides; the class
\* itself provides none.
ReaderMethods == {None, Some("read_csv")}

\* A dict that is iterated: its items in insertion order.
Item(key, value) == [key |-> key, value |-> value]

\* BatchRequest.options given to the asset, as ordered items.
AssetOptionsUniverse == {
  <<>>,
  <<Item(<<"directory">>, StrValue(<<"B">>))>>,
  <<Item(<<"directory">>, StrValue(<<"A">>)),
    Item(<<"filename">>, StrValue(<<"file_1.csv">>))>>,
  <<Item(<<"name">>, StrValue(<<"A">>))>>,
  <<Item(<<"path">>, str_of_Path(joinpath(Datasource.base_directory, PathParts(2))))>>,
  <<Item(<<"directory">>, IntValue(<<"1">>))>>,
  <<Item(<<"path">>, IntValue(<<"1">>))>>,
  <<Item(<<"directory">>, StrValue(<<"A">>)), Item(<<"filename">>, NoneValue)>>,
  <<Item(<<"directory">>, StrValue(<<"B">>)), Item(<<"name">>, StrValue(<<"A">>))>>,
  <<Item(<<"name">>, StrValue(<<"A">>)), Item(<<"directory">>, StrValue(<<"B">>))>> }

AssetBatchRequests ==
  [datasource_name : DatasourceNames, data_asset_name : {"my_filesystem_data_asset"},
   options : AssetOptionsUniverse]

\* The orders in which a directory scan may yield a set of entries.
Orderings(s) ==
  {o \in [1..Cardinality(s) -> s] : \A i, j \in 1..Cardinality(s) : o[i] = o[j] => i = j}

\* The keys of an ordered dict.
ItemKeys(items) == {items[i].key : i \in 1..Len(items)}

\* test_connection: success as soon as the regex matches the relative path
\* of an entry yielded by glob("**/*.*"); TestConnectionError otherwise.
test_connection(asset, files) ==
  IF \E filepath \in glob(files, "**/*.*") : ~re_match(asset.regex, filepath).isNone
  THEN [raised |-> ""]
  ELSE [raised |-> "TestConnectionError"]

\* abs_path: an entry of base_directory.glob(...) as a path under it.
abs_path_of(asset, p) == joinpath(asset.datasource.base_directory, PathParts(p))

\* match_options of a matching file: inside the loop over the group ids
\* 1..N the group's name is bound to the captured value and "path" to
\* str(abs_path); with N = 0 the loop body never runs.
match_options_of(asset, p) ==
  LET values == get_matches(asset._regex_parser, p).value
      n      == get_num_all_matched_group_values(asset._regex_parser)
      i2n    == asset._all_group_index_to_group_name_mapping
      last(k) == CHOOSE g \in 1..n : i2n[g] = k /\ \A h \in (g + 1)..n : i2n[h] # k
  IN  [k \in {i2n[g] : g \in 1..n} \cup (IF n >= 1 THEN {<<"path">>} ELSE {}) |->
         IF k = <<"path">> THEN str_of_Path(abs_path_of(asset, p))
         ELSE StrValue(<<values[last(k)]>>)]

\* The loop over batch_request.options.items(): match_options[key] raises
\* KeyError for a missing key; the first differing value ends the loop.
RECURSIVE allowed_match(_, _, _)
allowed_match(match_options, items, i) ==
  IF i > Len(items) THEN "allowed"
  ELSE IF items[i].key \notin DOMAIN match_options THEN "KeyError"
  ELSE IF match_options[items[i].key] # items[i].value THEN "rejected"
  ELSE allowed_match(match_options, items, i + 1)

\* The loop over all_paths, from position i on.
RECURSIVE _pairs_from(_, _, _, _)
_pairs_from(asset, all_paths, batch_request, i) ==
  IF i > Len(all_paths) THEN [raised |-> "", value |-> <<>>]
  ELSE
    LET p    == all_paths[i]
        rest == _pairs_from(asset, all_paths, batch_request, i + 1)
    IN  IF get_matches(asset._regex_parser, p).isNone THEN rest
        ELSE
          LET match_options == match_options_of(asset, p)
              outcome == allowed_match(match_options, batch_request.options, 1)
          IN  IF outcome = "KeyError" THEN [raised |-> "KeyError"]
              ELSE IF rest.raised # "" THEN rest
              ELSE IF outcome = "rejected" THEN rest
              ELSE [raised |-> "",
                    value |-> <<[batch_request |->
                                   [datasource_name |-> asset.datasource.name,
                                    data_asset_name |-> asset.name,
                                    options |-> match_options],
                                 path |-> p]>> \o rest.value]

\* _fully_specified_batch_requests_with_path, all_paths being the entries
\* of base_directory.glob("**/*.*") in the order of the scan.
_fully_specified_batch_requests_with_path(asset, all_paths, batch_request) ==
  _pairs_from(asset, all_paths, batch_request, 1)

\* batch_request_options_template: every group name and "path", each None.
batch_request_options_template(asset) ==
  [k \in Range(asset._all_group_names) \cup {<<"path">>} |-> NoneValue]


\* build_batch_request that holds every option to be a string, whatever
\* its key.
build_batch_request_checking_every_key(asset, options) ==
  IF ~options.isNone /\ Len(options.value) > 0
     /\ \E i \in 1..Len(options.value) : ~isinstance_str(options.value[i].value)
  THEN [raised |-> "InvalidBatchRequestError"]
  ELSE [raised |-> "", super_build_batch_request |-> options]

\* build_batch_request: with options that are neither None nor empty, an
\* option keyed by a regex group name whose value is not a str raises
\* InvalidBatchRequestError; otherwise the result is that of the parent's
\* build_batch_request called with the options as given.
build_batch_request(asset, options) ==
  IF ~options.isNone /\ Len(options.value) > 0
     /\ \E i \in 1..Len(options.value) :
          /\ options.value[i].key \in DOMAIN asset._all_group_name_to_group_index_mapping
          /\ ~isinstance_str(options.value[i].value)
  THEN [raised |-> "InvalidBatchRequestError"]
  ELSE [raised |-> "", super_build_batch_request |-> options]

\* The parent's _validate_batch_request: the request names the asset and
\* its datasource, and its option keys are keys of the template.
_validate_batch_request(asset, batch_request) ==
  IF /\ batch_request.datasource_name = asset.datasource.name
     /\ batch_request.data_asset_name = asset.name
     /\ ItemKeys(batch_request.options) \subseteq DOMAIN batch_request_options_template(asset)
  THEN [raised |-> ""]
  ELSE [raised |-> "InvalidBatchRequestError"]

\* The parent's sort_batches for an asset without order_by: the list stays
\* as it is.
sort_batches(batch_list) == batch_list

\* The Batch built for a pair when batch_metadata is request.options itself
\* and not a copy of it: the added key shows in the request's options.
Batch_without_copy(asset, pair) ==
  LET path     == abs_path_of(asset, pair.path)
      metadata == (<<"base_directory">> :> PathValue(path)) @@ pair.batch_request.options
  IN  [batch_request |-> [pair.batch_request EXCEPT !.options = metadata],
       metadata |-> metadata,
       legacy_batch_spec |-> [path |-> str_of_Path(path),
                              reader_method |-> asset.reader_method.value],
       legacy_batch_definition |->
         BatchDefinition(asset.datasource.name, "experimental", asset.name,
                         pair.batch_request.options)]

\* The Batch built for a pair (request, path): the request, the batch spec
\* of the path, the legacy batch definition, and as metadata a deep copy of
\* request.options with "base_directory" bound to the path.
Batch(asset, pair) ==
  LET path == abs_path_of(asset, pair.path)
  IN  [batch_request |-> pair.batch_request,
       metadata |-> (<<"base_directory">> :> PathValue(path))
                      @@ pair.batch_request.options,
       legacy_batch_spec |-> [path |-> str_of_Path(path),
                              reader_method |-> asset.reader_method.value],
       legacy_batch_definition |->
         BatchDefinition(asset.datasource.name, "experimental", asset.name,
                         pair.batch_request.options)]

\* get_batch_list_from_batch_request: validate, then one Batch per pair of
\* _fully_specified_batch_requests_with_path (the first pair raises
\* NotImplementedError when the asset has no reader method), then sort.
get_batch_list_from_batch_request(asset, all_paths, batch_request) ==
  LET validated == _validate_batch_request(asset, batch_request)
      pairs     == _fully_specified_batch_requests_with_path(asset, all_paths, batch_request)
  IN  IF validated.raised # "" THEN [raised |-> validated.raised, validated |-> FALSE]
      ELSE IF pairs.raised # "" THEN [raised |-> pairs.raised, validated |-> TRUE]
      ELSE IF Len(pairs.value) > 0 /\ asset.reader_method.isNone
           THEN [raised |-> "NotImplementedError", validated |-> TRUE]
      ELSE [raised |-> "", validated |-> TRUE,
            value |-> sort_batches([i \in 1..Len(pairs.value) |->
                                      Batch(asset, pairs.value[i])])]

\* ------------------------------------------------------------------------
\* The asset's constructor and calls
\* ------------------------------------------------------------------------
\* The parent's __init__: the RegExParser of the asset's regex and the
\* group mappings read from it.
FilesystemDataAsset_init(nm, regex, reader_method) ==
  LET parser == RegExParser_init(regex, unnamed_regex_group_prefix)
  IN  /\ ~the_asset.created
      /\ the_asset' =
           [created |-> TRUE, name |-> nm, datasource |-> Datasource,
            regex |-> regex, reader_method |-> reader_method,
            _regex_parser |-> parser,
            _all_group_name_to_group_index_mapping |->
              get_all_group_name_to_group_index_mapping(parser),
            _all_group_index_to_group_name_mapping |->
              get_all_group_index_to_group_name_mapping(parser),
            _all_group_names |-> get_all_group_names(parser)]
      /\ ret' = [op |-> "_FilesystemDataAsset"]
      /\ UNCHANGED <<fs, self_vars, _data_references_cache, last_enumerated,
                     _base_directory, data_context_root_directory, strategies_used>>

asset_unchanged ==
  UNCHANGED <<fs, self_vars, other_vars, _data_references_cache, last_enumerated>>

Call_test_connection ==
  /\ the_asset.created
  /\ ret' = [op |-> "test_connection", fs |-> fs,
             raised |-> test_connection(the_asset, fs).raised]
  /\ asset_unchanged

Call_fully_specified_batch_requests_with_path(all_paths, batch_request) ==
  /\ the_asset.created
  /\ ret' = [op |-> "_fully_specified_batch_requests_with_path", fs |-> fs,
             batch_request |-> batch_request,
             result |-> _fully_specified_batch_requests_with_path(
                          the_asset, all_paths, batch_request)]
  /\ asset_unchanged

Call_batch_request_options_template ==
  /\ the_asset.created
  /\ ret' = [op |-> "batch_request_options_template",
             value |-> batch_request_options_template(the_asset)]
  /\ asset_unchanged

Call_build_batch_request(options) ==
  /\ the_asset.created
  /\ ret' = [op |-> "build_batch_request", options |-> options,
             result |-> build_batch_request(the_asset, options)]
  /\ asset_unchanged

Call_get_batch_list_from_batch_request(all_paths, batch_request) ==
  /\ the_asset.created
  /\ ret' = [op |-> "get_batch_list_from_batch_request",
             batch_request |-> batch_request,
             pairs |-> _fully_specified_batch_requests_with_path(
                         the_asset, all_paths, batch_request),
             result |-> get_batch_list_from_batch_request(
                          the_asset, all_paths, batch_request)]
  /\ asset_unchanged

NextAsset ==
  \/ \E p \in Paths : CreateFile(p)
  \/ \E p \in Paths : RemoveFile(p)
  \/ \E regex \in Patterns \cup PatternsWithoutExtension, reader_method \in ReaderMethods :
       FilesystemDataAsset_init("my_filesystem_data_asset", regex, reader_method)
  \/ Call_test_connection
  \/ \E all_paths \in Orderings(glob(fs, "**/*.*")), batch_request \in AssetBatchRequests :
       Call_fully_specified_batch_requests_with_path(all_paths, batch_request)
  \/ Call_batch_request_options_template
  \/ \E options \in {None} \cup {Some(o) : o \in AssetOptionsUniverse} :
       Call_build_batch_request(options)
  \/ \E all_paths \in Orderings(glob(fs, "**/*.*")), batch_request \in AssetBatchRequests :
       Call_get_batch_list_from_batch_request(all_paths, batch_request)

SpecAsset == Init /\ [][NextAsset]_vars


\* ------------------------------------------------------------------------
\* Vocabulary of the asset's properties
\* ------------------------------------------------------------------------
\* The files (not directories) that were on disk at the call and whose
\* relative path the asset's regex matches.
MatchingFilesOnDisk ==
  {p \in ret.fs : ~PathTable[p].isDir /\ ~re_match(the_asset.regex, p).isNone}

\* The keys of the asset's template: the regex group names and "path".
TemplateKeys == Range(the_asset._all_group_names) \cup {<<"path">>}

\* The file p has, for every option, the option's value: under "path" its
\* absolute path, under a group name the string that group captured.
CorrespondsTo(p, items) ==
  LET captured == re_match(the_asset.regex, p).value
      i2n      == the_asset._all_group_index_to_group_name_mapping
  IN  \A i \in 1..Len(items) :
        IF items[i].key = <<"path">>
        THEN items[i].value = str_of_Path(abs_path_of(the_asset, p))
        ELSE \A g \in 1..the_asset.regex.groups :
               i2n[g] = items[i].key => items[i].value = StrValue(<<captured[g]>>)

\* C14: test_connection raises TestConnectionError if and only if no file
\* under base_directory has a relative path that the asset's regex matches.
C14_TestConnectionErrorIffNoFileMatches ==
  ret.op = "test_connection"
  => (ret.raised = "TestConnectionError" <=> MatchingFilesOnDisk = {})

\* C15: for a batch request whose option keys are keys of the template,
\* _fully_specified_batch_requests_with_path raises nothing and returns one
\* pair for exactly the files on disk that the regex matches and that have
\* the value of every option (no pair when there is no such file).
C15_PairsForExactlyTheCorrespondingFiles ==
  (/\ ret.op = "_fully_specified_batch_requests_with_path"
   /\ ItemKeys(ret.batch_request.options) \subseteq TemplateKeys)
  => /\ ret.result.raised = ""
     /\ {ret.result.value[i].path : i \in 1..Len(ret.result.value)}
          = {p \in MatchingFilesOnDisk : CorrespondsTo(p, ret.batch_request.options)}
     /\ \A i, j \in 1..Len(ret.result.value) :
          ret.result.value[i].path = ret.result.value[j].path => i = j

\* C16: the options of every batch request returned by
\* _fully_specified_batch_requests_with_path have exactly the keys of
\* batch_request_options_template(), every group name bound to a string
\* captured by a group of that name and "path" bound to the string of the
\* absolute path paired with the request, whatever the regex.
C16_ReturnedRequestsAreFullySpecified ==
  (ret.op = "_fully_specified_batch_requests_with_path" /\ ret.result.raised = "")
  => \A i \in 1..Len(ret.result.value) :
       LET pair     == ret.result.value[i]
           options  == pair.batch_request.options
           captured == re_match(the_asset.regex, pair.path).value
           i2n      == the_asset._all_group_index_to_group_name_mapping
       IN  /\ DOMAIN options = DOMAIN batch_request_options_template(the_asset)
           /\ \A k \in Range(the_asset._all_group_names) :
                \E g \in 1..the_asset.regex.groups :
                  i2n[g] = k /\ options[k] = StrValue(<<captured[g]>>)
           /\ options[<<"path">>] = str_of_Path(abs_path_of(the_asset, pair.path))

\* C17: build_batch_request raises InvalidBatchRequestError, and does not
\* reach the parent's build_batch_request, exactly when some given option
\* keyed by a regex group name has a value that is not a string; in every
\* other case (other keys, None, empty options) the parent is called with
\* the options as they were given.
C17_OnlyGroupOptionsMustBeStrings ==
  ret.op = "build_batch_request"
  => LET offending ==
           /\ ~ret.options.isNone
           /\ \E i \in 1..Len(ret.options.value) :
                /\ ret.options.value[i].key \in Range(the_asset._all_group_names)
                /\ ret.options.value[i].value.type # "str"
     IN  IF offending
         THEN /\ ret.result.raised = "InvalidBatchRequestError"
              /\ "super_build_batch_request" \notin DOMAIN ret.result
         ELSE /\ ret.result.raised = ""
              /\ ret.result.super_build_batch_request = ret.options

\* A "path" option that is not a string, passed on to the parent by an
\* asset whose regex has groups.
C17_Witness ==
  /\ ret.op = "build_batch_request"
  /\ the_asset.regex.groups > 0
  /\ ~ret.options.isNone
  /\ \E i \in 1..Len(ret.options.value) :
       ret.options.value[i].key = <<"path">> /\ ret.options.value[i].value.type = "int"
  /\ ret.result.raised = ""

ColumnValues == {1, 2, 3}

DataFrames == UNION {[1..n -> ColumnValues] : n \in 0..MaxRows}

\* Batch specs: without sampling_kwargs, or with the given sampling_kwargs.
BatchSpec(sampling_kwargs) == [sampling_kwargs |-> sampling_kwargs]

LimitBatchSpecs ==
  {BatchSpec(None), BatchSpec(Some([column_name |-> "x"]))}
    \cup {BatchSpec(Some([n |-> n])) : n \in {0, 1, 2, 5}}

\* p is given in hundredths.
RandomBatchSpecs ==
  {BatchSpec(None), BatchSpec(Some([p |-> 50])), BatchSpec(Some([p |-> 100]))}

ModBatchSpecs ==
  {BatchSpec(None),
   BatchSpec(Some([column_name |-> "x", mod |-> 2])),
   BatchSpec(Some([column_name |-> "x", mod |-> 2, value |-> 1])),
   BatchSpec(Some([column_name |-> "y", mod |-> 2, value |-> 0]))}

ListBatchSpecs ==
  {BatchSpec(None),
   BatchSpec(Some([column_name |-> "x"])),
   BatchSpec(Some([column_name |-> "x", value_list |-> {1, 3}])),
   BatchSpec(Some([column_name |-> "y", value_list |-> {2}]))}

HashBatchSpecs ==
  {BatchSpec(None),
   BatchSpec(Some([column_name |-> "x"])),
   BatchSpec(Some([column_name |-> "x", hash_value |-> "c"])),
   BatchSpec(Some([column_name |-> "x", hash_value |-> "b", hash_function_name |-> "sha256"])),
   BatchSpec(Some([column_name |-> "x", hash_function_name |-> "md6"]))}

\* The methods of PolarsDataSampler that sample a dataframe.
SamplingMethods ==
  {"sample_using_limit", "sample_using_random", "sample_using_mod",
   "sample_using_a_list", "sample_using_hash"}

\* DataSampler.verify_batch_spec_sampling_kwargs_exists and
\* verify_batch_spec_sampling_kwargs_key_exists for each key in turn: the
\* sampler error they raise, or "".
verify_batch_spec_sampling_kwargs(keys, batch_spec) ==
  IF batch_spec.sampling_kwargs.isNone THEN "SamplerError"
  ELSE IF \E k \in keys : k \notin DOMAIN batch_spec.sampling_kwargs.value
       THEN "SamplerError"
  ELSE ""

\* DataSampler.get_sampling_kwargs_value_or_default.
get_sampling_kwargs_value_or_default(batch_spec, sampling_kwargs_key, default_value) ==
  IF batch_spec.sampling_kwargs.isNone THEN default_value
  ELSE IF sampling_kwargs_key \in DOMAIN batch_spec.sampling_kwargs.value
       THEN batch_spec.sampling_kwargs.value[sampling_kwargs_key]
  ELSE default_value

\* df.head(n) for n >= 0.
head(df, n) == SubSeq(df, 1, IF n < Len(df) THEN n ELSE Len(df))

\* hash_func(str(x).encode()).hexdigest()[-1:] for the hash functions of
\* hashlib and the column values.
hexdigest_last(hash_function_name, x) ==
  CASE hash_function_name = "md5"    -> <<"b", "c", "3">>[x]
    [] hash_function_name = "sha256" -> <<"b", "5", "e">>[x]

hashlib_names == {"md5", "sha256"}

\* sample_using_limit that keeps the last n rows.
sample_using_limit_from_the_end(df, batch_spec) ==
  IF verify_batch_spec_sampling_kwargs({"n"}, batch_spec) # ""
  THEN [raised |-> "SamplerError"]
  ELSE LET n == batch_spec.sampling_kwargs.value["n"]
           k == IF n < Len(df) THEN n ELSE Len(df)
       IN  [raised |-> "", value |-> SubSeq(df, Len(df) - k + 1, Len(df))]

\* sample_using_limit: df.head(n) with n = sampling_kwargs["n"].
sample_using_limit(df, batch_spec) ==
  IF verify_batch_spec_sampling_kwargs({"n"}, batch_spec) # ""
  THEN [raised |-> "SamplerError"]
  ELSE [raised |-> "", value |-> head(df, batch_spec.sampling_kwargs.value["n"])]

\* sample_using_random: df.sample(frac=p), p defaulting to 0.1: the
\* outcomes are the selections of int(p * height) rows, in any order.
sample_using_random(df, batch_spec) ==
  LET p == get_sampling_kwargs_value_or_default(batch_spec, "p", 10)
      k == (p * Len(df)) \div 100
  IN  {[raised |-> "", value |-> [i \in 1..k |-> df[pick[i]]]] :
         pick \in {q \in [1..k -> 1..Len(df)] :
                     \A i, j \in 1..k : q[i] = q[j] => i = j}}

\* sample_using_mod: df[mask], the rows whose column value x has
\* x % mod == value, in their order.
sample_using_mod(df, batch_spec) ==
  IF verify_batch_spec_sampling_kwargs({"column_name", "mod", "value"}, batch_spec) # ""
  THEN [raised |-> "SamplerError"]
  ELSE LET kw == batch_spec.sampling_kwargs.value
       IN  IF kw.column_name # "x" THEN [raised |-> "ColumnNotFoundError"]
           ELSE [raised |-> "",
                 value |-> SelectSeq(df, LAMBDA x : x % kw.mod = kw.value)]

\* sample_using_a_list that goes on from the dataframe the previous
\* strategy returned.
sample_using_a_list_of_previous_sample(df, batch_spec) ==
  IF verify_batch_spec_sampling_kwargs({"column_name", "value_list"}, batch_spec) # ""
  THEN [raised |-> "SamplerError"]
  ELSE LET kw   == batch_spec.sampling_kwargs.value
           from == IF ret.op \in SamplingMethods /\ ret.raised = "" THEN ret.value ELSE df
       IN  IF kw.column_name # "x" THEN [raised |-> "ColumnNotFoundError"]
           ELSE [raised |-> "",
                 value |-> SelectSeq(from, LAMBDA x : x \in kw.value_list)]

\* sample_using_a_list: the rows whose column value is in value_list.
sample_using_a_list(df, batch_spec) ==
  IF verify_batch_spec_sampling_kwargs({"column_name", "value_list"}, batch_spec) # ""
  THEN [raised |-> "SamplerError"]
  ELSE LET kw == batch_spec.sampling_kwargs.value
       IN  IF kw.column_name # "x" THEN [raised |-> "ColumnNotFoundError"]
           ELSE [raised |-> "",
                 value |-> SelectSeq(df, LAMBDA x : x \in kw.value_list)]

\* sample_using_hash: the rows whose hashed column value ends in
\* hash_value (default "f", one digit, md5); a hash_function_name that
\* hashlib does not have raises ExecutionEngineError.
sample_using_hash(df, batch_spec) ==
  IF verify_batch_spec_sampling_kwargs({"column_name"}, batch_spec) # ""
  THEN [raised |-> "SamplerError"]
  ELSE LET column_name == get_sampling_kwargs_value_or_default(batch_spec, "column_name", "")
           hash_value  == get_sampling_kwargs_value_or_default(batch_spec, "hash_value", "f")
           hash_function_name ==
             get_sampling_kwargs_value_or_default(batch_spec, "hash_function_name", "md5")
       IN  IF hash_function_name \notin hashlib_names
           THEN [raised |-> "ExecutionEngineError"]
           ELSE IF column_name # "x" THEN [raised |-> "ColumnNotFoundError"]
           ELSE [raised |-> "",
                 value |-> SelectSeq(df, LAMBDA x :
                                        hexdigest_last(hash_function_name, x) = hash_value)]

\* A call of a sampling method: what it was given and what came of it.
Sampled(method, df, batch_spec, result) ==
  /\ ret' = [op |-> method, df |-> df, batch_spec |-> batch_spec,
             raised |-> result.raised,
             value |-> IF result.raised = "" THEN result.value ELSE <<>>]
  /\ strategies_used' = IF result.raised = "" THEN strategies_used \cup {method}
                        ELSE strategies_used
  /\ UNCHANGED <<fs, self_vars, _data_references_cache, last_enumerated,
                 _base_directory, data_context_root_directory, the_asset>>

Call_sample_using_limit(df, batch_spec) ==
  Sampled("sample_using_limit", df, batch_spec, sample_using_limit(df, batch_spec))

Call_sample_using_random(df, batch_spec) ==
  \E result \in sample_using_random(df, batch_spec) :
    Sampled("sample_using_random", df, batch_spec, result)

Call_sample_using_mod(df, batch_spec) ==
  Sampled("sample_using_mod", df, batch_spec, sample_using_mod(df, batch_spec))

Call_sample_using_a_list(df, batch_spec) ==
  Sampled("sample_using_a_list", df, batch_spec, sample_using_a_list(df, batch_spec))

Call_sample_using_hash(df, batch_spec) ==
  Sampled("sample_using_hash", df, batch_spec, sample_using_hash(df, batch_spec))

NextSampler ==
  \/ \E df \in DataFrames, batch_spec \in LimitBatchSpecs :
       Call_sample_using_limit(df, batch_spec)
  \/ \E df \in DataFrames, batch_spec \in RandomBatchSpecs :
       Call_sample_using_random(df, batch_spec)
  \/ \E df \in DataFrames, batch_spec \in ModBatchSpecs :
       Call_sample_using_mod(df, batch_spec)
  \/ \E df \in DataFrames, batch_spec \in ListBatchSpecs :
       Call_sample_using_a_list(df, batch_spec)
  \/ \E df \in DataFrames, batch_spec \in HashBatchSpecs :
       Call_sample_using_hash(df, batch_spec)

SpecSampler == Init /\ [][NextSampler]_vars

\* The number of rows of df that equal row.
CountRows(df, row) == Cardinality({i \in 1..Len(df) : df[i] = row})

\* Every row of sample is a row of df, no more often than in df.
IsSampleOf(sample, df) ==
  \A row \in ColumnValues : CountRows(sample, row) <= CountRows(df, row)

\* C19 as stated: the sampling strategies of PolarsDataSampler are six, and
\* the dataframe each returns is a sample of the dataframe it was given,
\* whatever other strategies returned before.
C19_SixIndependentStrategies ==
  /\ (ret.op \in SamplingMethods /\ ret.raised = "") => IsSampleOf(ret.value, ret.df)
  /\ strategies_used = SamplingMethods => Cardinality(strategies_used) = 6

\* C19 as amended: the sampling strategies of PolarsDataSampler are five,
\* and the dataframe each returns is a sample of the dataframe it was
\* given, whatever other strategies returned before.
C19_FiveIndependentStrategies ==
  /\ (ret.op \in SamplingMethods /\ ret.raised = "") => IsSampleOf(ret.value, ret.df)
  /\ strategies_used \subseteq SamplingMethods
  /\ strategies_used = SamplingMethods => Cardinality(strategies_used) = 5

\* Every strategy has returned a dataframe, the last one non-empty rows of
\* a dataframe that the strategy before it was not given.
C19_Witness ==
  /\ strategies_used = SamplingMethods
  /\ ret.op \in SamplingMethods
  /\ ret.raised = ""
  /\ Len(ret.value) > 0
  /\ Len(ret.value) < Len(ret.df)

\* C20: sample_using_limit raises the sampler error and returns nothing
\* when the batch spec has no sampling_kwargs or no key "n"; otherwise it
\* returns the first n rows of the dataframe in their order, all of them
\* when the dataframe has fewer than n.
C20_LimitIsTheFirstRows ==
  ret.op = "sample_using_limit"
  => IF ret.batch_spec.sampling_kwargs.isNone
        \/ "n" \notin DOMAIN ret.batch_spec.sampling_kwargs.value
     THEN ret.raised = "SamplerError" /\ ret.value = <<>>
     ELSE LET n == ret.batch_spec.sampling_kwargs.value.n
          IN  /\ ret.raised = ""
              /\ Len(ret.value) = (IF Len(ret.df) < n THEN Len(ret.df) ELSE n)
              /\ \A i \in 1..Len(ret.value) : ret.value[i] = ret.df[i]

\* The first of two rows that differ.
C20_Witness ==
  /\ ret.op = "sample_using_limit"
  /\ ret.raised = ""
  /\ Len(ret.value) = 1
  /\ Len(ret.df) = 2
  /\ ret.df[1] # ret.df[2]


\* ------------------------------------------------------------------------
\* BatchMetricComputation and BatchMetricComputationSchema
\* ------------------------------------------------------------------------
\* Further Python values held by the fields of a record: a uuid.UUID (its
\* canonical text), a datetime.datetime (its ISO text) and a bool.
UUIDValue(chunks) == [type |-> "UUID", v |-> chunks]

DateTimeValue(chunks) == [type |-> "datetime", v |-> chunks]

BoolValue(b) == [type |-> "bool", v |-> <<IF b THEN "True" ELSE "False">>]

\* uuid.UUID(text): the texts that are a UUID, with the canonical
\* (lower-case) text of the UUID each denotes.
uuid_texts ==
  (<<"c0ffee00-0000-4000-8000-000000000001">> :> <<"c0ffee00-0000-4000-8000-000000000001">>)
    @@ (<<"C0FFEE00-0000-4000-8000-000000000001">> :> <<"c0ffee00-0000-4000-8000-000000000001">>)

\* The texts datetime.fromisoformat reads.
iso_texts == {<<"2023-01-31T12:00:00">>}

\* The fields the schema declares, with the marshmallow field class of each.
SchemaFields ==
  [id |-> "Integer", created_at |-> "DateTime", updated_at |-> "DateTime",
   deleted_at |-> "DateTime", deleted |-> "Boolean", archived_at |-> "DateTime",
   archived |-> "Boolean", data_context_uuid |-> "UUID",
   datasource_name |-> "String", data_asset_name |-> "String",
   batch_name |-> "Raw", batch_uuid |-> "UUID", metric_name |-> "String",
   metric_domain_kwargs_uuid |-> "UUID", metric_value_kwargs_uuid |-> "UUID",
   value |-> "Raw", details |-> "Dict"]

\* The fields declared required=True, allow_none=False.
RequiredFields ==
  {"datasource_name", "data_asset_name", "batch_name", "batch_uuid", "metric_name",
   "metric_domain_kwargs_uuid", "metric_value_kwargs_uuid"}

\* BatchMetricComputation.__init__: the fields dict, a keyword that is not
\* given taking its default (False for deleted and archived, else None).
BatchMetricComputation(kwargs) ==
  [k \in DOMAIN SchemaFields |->
     IF k \in DOMAIN kwargs THEN kwargs[k]
     ELSE IF k \in {"deleted", "archived"} THEN BoolValue(FALSE)
     ELSE NoneValue]

\* The values a caller gives for the identifier fields: a str holding a
\* canonical UUID text, a str holding another text of the same UUID, a str
\* that is no UUID, and a uuid.UUID.
BatchUUIDs ==
  {StrValue(<<"c0ffee00-0000-4000-8000-000000000001">>),
   StrValue(<<"C0FFEE00-0000-4000-8000-000000000001">>),
   StrValue(<<"batch_1">>),
   UUIDValue(<<"c0ffee00-0000-4000-8000-000000000001">>)}

\* The keyword arguments the records are built from.
BatchMetricComputationKwargs ==
  {[id |-> id, created_at |-> created_at, deleted |-> deleted,
    data_context_uuid |-> data_context_uuid,
    datasource_name |-> StrValue(<<"my_dataframe_datasource">>),
    data_asset_name |-> StrValue(<<"my_filesystem_data_asset">>),
    batch_name |-> StrValue(<<"batch_1">>),
    batch_uuid |-> batch_uuid,
    metric_name |-> StrValue(<<"table.row_count">>),
    metric_domain_kwargs_uuid |-> metric_domain_kwargs_uuid,
    metric_value_kwargs_uuid |-> UUIDValue(<<"c0ffee00-0000-4000-8000-000000000001">>),
    value |-> value] :
     id \in {NoneValue, IntValue(<<"1">>)},
     created_at \in {NoneValue, DateTimeValue(<<"2023-01-31T12:00:00">>)},
     deleted \in {BoolValue(FALSE), BoolValue(TRUE)},
     data_context_uuid \in {NoneValue, StrValue(<<"c0ffee00-0000-4000-8000-000000000001">>),
                            UUIDValue(<<"c0ffee00-0000-4000-8000-000000000001">>)},
     batch_uuid \in BatchUUIDs,
     metric_domain_kwargs_uuid \in {StrValue(<<"c0ffee00-0000-4000-8000-000000000001">>),
                                    UUIDValue(<<"c0ffee00-0000-4000-8000-000000000001">>)},
     value \in {NoneValue, IntValue(<<"3">>)}}

\* Field._serialize of the field class: None stays None; String and UUID
\* give str(value); DateTime gives value.isoformat(); the others give the
\* value.
field_serialize(field_class, value) ==
  IF value.type = "NoneType" THEN NoneValue
  ELSE IF field_class \in {"String", "UUID", "DateTime"} THEN StrValue(value.v)
  ELSE value

\* Field._deserialize of the field class: the loaded value, or the
\* validation error of a value the field does not accept.
field_deserialize(field_class, value) ==
  CASE field_class = "UUID" ->
         IF value.type = "UUID" THEN [raised |-> "", value |-> value]
         ELSE IF value.type = "str" /\ value.v \in DOMAIN uuid_texts
              THEN [raised |-> "", value |-> UUIDValue(uuid_texts[value.v])]
         ELSE [raised |-> "ValidationError"]
    [] field_class = "String" ->
         IF value.type = "str" THEN [raised |-> "", value |-> value]
         ELSE [raised |-> "ValidationError"]
    [] field_class = "DateTime" ->
         IF value.type = "str" /\ value.v \in iso_texts
         THEN [raised |-> "", value |-> DateTimeValue(value.v)]
         ELSE [raised |-> "ValidationError"]
    [] field_class = "Integer" ->
         IF value.type = "int" THEN [raised |-> "", value |-> value]
         ELSE [raised |-> "ValidationError"]
    [] field_class = "Boolean" ->
         IF value.type = "bool" THEN [raised |-> "", value |-> value]
         ELSE [raised |-> "ValidationError"]
    [] OTHER -> [raised |-> "", value |-> value]

\* to_dict: dict(batchMetricComputationSchema.dump(self)).
to_dict(self) ==
  [k \in DOMAIN SchemaFields |-> field_serialize(SchemaFields[k], self[k])]

\* batchMetricComputationSchema.load(data): a required field that is
\* missing or None, or a value its field does not accept, raises
\* ValidationError; otherwise post_load builds BatchMetricComputation(**data)
\* from the loaded values.
load(data) ==
  IF \/ \E k \in RequiredFields : k \notin DOMAIN data \/ data[k].type = "NoneType"
     \/ \E k \in DOMAIN data :
          data[k].type # "NoneType" /\ field_deserialize(SchemaFields[k], data[k]).raised # ""
  THEN [raised |-> "ValidationError"]
  ELSE [raised |-> "",
        value |-> BatchMetricComputation(
                    [k \in DOMAIN data |->
                       IF data[k].type = "NoneType" THEN NoneValue
                       ELSE field_deserialize(SchemaFields[k], data[k]).value])]

schema_unchanged ==
  UNCHANGED <<fs, self_vars, other_vars, _data_references_cache, last_enumerated>>

BatchMetricComputation_init(kwargs) ==
  /\ ret' = [op |-> "BatchMetricComputation", self |-> BatchMetricComputation(kwargs)]
  /\ schema_unchanged

Call_to_dict ==
  /\ ret.op = "BatchMetricComputation"
  /\ ret' = [op |-> "to_dict", self |-> ret.self, value |-> to_dict(ret.self)]
  /\ schema_unchanged

\* The dictionary of to_dict, whole or with one key taken out, is loaded.
Call_load(dropped) ==
  /\ ret.op = "to_dict"
  /\ LET data == [k \in DOMAIN ret.value \ dropped |-> ret.value[k]]
     IN  ret' = [op |-> "load", self |-> ret.self, dropped |-> dropped,
                 data |-> data, result |-> load(data)]
  /\ schema_unchanged

NextSchema ==
  \/ \E kwargs \in BatchMetricComputationKwargs : BatchMetricComputation_init(kwargs)
  \/ Call_to_dict
  \/ \E dropped \in {{}} \cup {{k} : k \in DOMAIN SchemaFields} : Call_load(dropped)

SpecSchema == Init /\ [][NextSchema]_vars

\* C21: loading the dictionary of to_dict() gives a record whose fields
\* equal those of the original record, and a dictionary that lacks one of
\* the seven required fields is rejected on load.
C21_SerializationRoundTrips ==
  ret.op = "load"
  => /\ ret.dropped = {}
        => /\ ret.result.raised = ""
           /\ \A k \in DOMAIN SchemaFields : ret.result.value[k] = ret.self[k]
     /\ (ret.dropped \cap RequiredFields # {}) => ret.result.raised = "ValidationError"


\* ------------------------------------------------------------------------
\* The cache of one connector while its directory changes
\* ------------------------------------------------------------------------
\* The batch requests that reach the cache: for the connector or not,
\* without options or with the empty options.
RefreshBatchRequests ==
  [datasource_name : DatasourceNames, data_asset_name : {"my_filesystem_data_asset"},
   options : {None, Some(<<>>)}]

NextRefresh ==
  \/ \E p \in PathsWithExtension : CreateFile(p)
  \/ \E p \in PathsWithExtension : RemoveFile(p)
  \/ \E regex \in Patterns \cup {None}, g \in GlobDirectives :
       FilePathDataConnector_init("my_dataframe_datasource", "my_filesystem_data_asset",
                                  regex, g)
  \/ Call_refresh_data_references_cache
  \/ \E batch_request \in RefreshBatchRequests :
       Call_get_batch_definition_list_from_batch_request(batch_request)

SpecRefresh == Init /\ [][NextRefresh]_vars

\* C22: a _refresh_data_references_cache call leaves the cache with exactly
\* the data references it enumerated as keys (so the references removed
\* from the filesystem are gone and the new ones are present); a refresh
\* that enumerates what the previous refresh enumerated leaves the cache
\* equal; and the cache never changes except into one whose keys are the
\* references then enumerated.
C22_RefreshReplacesTheCache ==
  [][/\ Call_refresh_data_references_cache
        => /\ CacheKeys' = Range(get_data_references(fs, _glob_directive))
           /\ last_enumerated = get_data_references(fs, _glob_directive)
              => _data_references_cache' = _data_references_cache
     /\ _data_references_cache' # _data_references_cache
        => CacheKeys' = Range(get_data_references(fs', _glob_directive'))]_vars

\* A refresh after which one cached reference is gone and a new one is
\* present.
C22_Witness ==
  /\ ret.op = "_refresh_data_references_cache"
  /\ ret.keys_before \ CacheKeys # {}
  /\ CacheKeys \ ret.keys_before # {}

\* ------------------------------------------------------------------------
\* Options with keys that are not built for a matching file
\* ------------------------------------------------------------------------
\* The positions of the options whose key is not in keys.
ForeignPositions(items, keys) == {i \in 1..Len(items) : items[i].key \notin keys}

\* C23: a batch request with an option whose key is neither a
\* regex group name nor "path" makes _fully_specified_batch_requests_with_path
\* raise the missing-key error whenever a file under base_directory matches
\* the regex, and returns the empty list without error when none matches.
C23_ForeignOptionFailsOnAnyMatch ==
  (/\ ret.op = "_fully_specified_batch_requests_with_path"
   /\ ForeignPositions(ret.batch_request.options, TemplateKeys) # {})
  => IF MatchingFilesOnDisk # {}
     THEN ret.result.raised = "KeyError"
     ELSE ret.result.raised = "" /\ ret.result.value = <<>>

=============================================================================
